---- MODULE Spec2Model ----
(***************************************************************************)
(* Model of nbrmd/cell_to_text.py: the export of one notebook cell as the  *)
(* lines of a .Rmd, .R or .py text notebook.                               *)
(*                                                                         *)
(* A line is a sequence of characters (one-character strings); an option   *)
(* string is a sequence of such characters and of atoms (a key, a value).  *)
(* A metadata mapping is a function from keys to values.                   *)
(*                                                                         *)
(* Spec is one CellExporter: its construction on any cell of the bounded   *)
(* sets, then cell_to_text calls. SpecFn is one direct call of a           *)
(* module-level function (py_endofcell_marker, code_to_py) on any          *)
(* arguments of the bounded sets.                                          *)
(*                                                                         *)
(* The functions cell_to_text.py imports from the other modules of the     *)
(* package (filter_metadata, is_active, escape_magic, the two option       *)
(* writers, cell_language, code_to_cell) are modelled after their          *)
(* description in the specification. Of code_to_cell, the decoder, only    *)
(* the number of lines it reads is used; it is a value chosen at           *)
(* construction, any number between 0 and the length of the source.        *)
(* self.skiplines is computed by __init__ and read by no method.           *)
(***************************************************************************)
EXTENDS Integers, Sequences, FiniteSets, TLC

VARIABLES
    cell,        \* the notebook cell given to CellExporter.__init__
    ext,         \* self.ext
    cell_type,   \* self.cell_type
    source,      \* self.source
    metadata,    \* self.metadata
    language,    \* self.language
    padlines,    \* self.padlines
    consumed,    \* what code_to_cell(self, source, False)[1] gives for this cell
    calls,       \* number of cell_to_text calls made so far (capped)
    text,        \* the lines the last cell_to_text call returned
    call,        \* what the last cell_to_text call went through
    fn           \* the last direct call of a module-level function

vars == <<cell, ext, cell_type, source, metadata, language, padlines,
          consumed, calls, text, call, fn>>

exporter == <<cell, ext, cell_type, source, metadata, language, padlines,
              consumed, calls, text, call>>

----------------------------------------------------------------------------
(* Bounds of the model *)

MaxLines == 2     \* lines in a cell's source
MaxDash == 2      \* dashes in a source line that looks like an end-of-cell marker
MaxPad == 1       \* padlines

----------------------------------------------------------------------------
(* Python values *)

Empty == << >>

SetItem(d, k, v) == [x \in DOMAIN d \cup {k} |-> IF x = k THEN v ELSE d[x]]

DelItem(d, k) == [x \in DOMAIN d \ {k} |-> d[x]]

Get(d, k, default) == IF k \in DOMAIN d THEN d[k] ELSE default

startswith(line, prefix) ==
    /\ Len(line) >= Len(prefix)
    /\ SubSeq(line, 1, Len(prefix)) = prefix

Repeat(x, n) == [i \in 1..n |-> x]

NewLine == "\n"

FirstNewLine(s) ==
    IF \E i \in 1..Len(s) : s[i] = NewLine
    THEN CHOOSE i \in 1..Len(s) : s[i] = NewLine /\ \A j \in 1..(i - 1) : s[j] # NewLine
    ELSE 0

RECURSIVE splitlines(_)
splitlines(s) ==
    IF s = << >> THEN << >>
    ELSE LET i == FirstNewLine(s)
         IN IF i = 0 THEN << s >>
            ELSE << SubSeq(s, 1, i - 1) >> \o splitlines(SubSeq(s, i + 1, Len(s)))

\* \s of the regular expressions, among the characters of the model
Whitespace == {" ", "\t"}

----------------------------------------------------------------------------
(* Collaborators of cell_to_text.py (other modules of the package) *)

ReservedKeys == {"padlines", "skiplines", "skipline", "noskipline"}

filter_metadata(md) == [k \in DOMAIN md \ ReservedKeys |-> md[k]]

\* the values of the 'active' key and the formats each of them lists
ActiveFormats(v) ==
    CASE v = "" -> {""}
      [] v = "ipynb" -> {"ipynb"}
      [] v = "py" -> {"py"}
      [] v = "ipynb,Rmd" -> {"ipynb", "Rmd"}

FormatName(e) ==
    CASE e \in {".Rmd", "Rmd"} -> "Rmd"
      [] e \in {".R", "R"} -> "R"
      [] e \in {".py", "py"} -> "py"

is_active(e, md) ==
    IF "active" \notin DOMAIN md THEN TRUE
    ELSE FormatName(e) \in ActiveFormats(md["active"])

is_magic(line) == Len(line) > 0 /\ line[1] = "%"

escape_magic(src, lang) ==
    [i \in DOMAIN src |-> IF is_magic(src[i]) THEN <<"#", " ">> \o src[i] ELSE src[i]]

KeyOrder == <<"tags", "active", "language", "endofcell", "eval">>

ValueText(k, v) ==
    CASE k = "endofcell" -> v
      [] k = "eval" -> << IF v THEN "TRUE" ELSE "FALSE" >>
      [] OTHER -> << v >>

RECURSIVE OptionItems(_, _)
OptionItems(md, i) ==
    IF i > Len(KeyOrder) THEN << >>
    ELSE LET k == KeyOrder[i]
         IN (IF k \in DOMAIN md THEN <<k, "=">> \o ValueText(k, md[k]) \o <<",">> ELSE << >>)
            \o OptionItems(md, i + 1)

metadata_to_rmd_options(lang, md) ==
    (IF lang = "None" THEN << >> ELSE << lang >>) \o OptionItems(md, 1)

metadata_to_json_options(md) == <<"{">> \o OptionItems(md, 1) \o <<"}">>

\* code_to_cell(self, source, False): (cell, number of lines read). The same
\* exporter always asks about the same lines, and gets the same answer.
code_to_cell(self, src, parse_opt) == <<"cell", consumed>>

----------------------------------------------------------------------------
(* nbrmd/cell_to_text.py *)

cell_source(c) ==
    IF c.source = << >> THEN << << >> >>
    ELSE IF c.source[Len(c.source)] = NewLine
         THEN splitlines(c.source) \o << << >> >>
         ELSE splitlines(c.source)

\* the three backquotes of a fence (a string of the model cannot hold the character)
Fence == <<"backquote", "backquote", "backquote">>

\* code_to_rmd with the eval key set after the options are written
code_to_rmd_late_eval(src, md, lang) ==
    LET md1 == IF ~is_active("Rmd", md) THEN SetItem(md, "eval", FALSE) ELSE md
        options == metadata_to_rmd_options(lang, md)
    IN [lines |-> << Fence \o <<"{">> \o options \o <<"}">> >>
                  \o src \o << Fence >>,
        metadata |-> md1,
        raised |-> ""]

code_to_rmd(src, md, lang) ==
    LET md1 == IF ~is_active("Rmd", md) THEN SetItem(md, "eval", FALSE) ELSE md
        options == metadata_to_rmd_options(lang, md1)
    IN [lines |-> << Fence \o <<"{">> \o options \o <<"}">> >>
                  \o src \o << Fence >>,
        metadata |-> md1,
        raised |-> ""]

\* code_to_r marking an inactive cell under another key
code_to_r_other_key(src, md) ==
    LET md1 == IF ~is_active("R", md) THEN SetItem(md, "include", FALSE) ELSE md
        options == metadata_to_rmd_options("None", md1)
    IN [lines |-> (IF options # << >> THEN << <<"#", "+", " ">> \o options >> ELSE << >>)
                  \o src,
        metadata |-> md1,
        raised |-> ""]

code_to_r(src, md) ==
    LET md1 == IF ~is_active("R", md) THEN SetItem(md, "eval", FALSE) ELSE md
        options == metadata_to_rmd_options("None", md1)
    IN [lines |-> (IF options # << >> THEN << <<"#", "+", " ">> \o options >> ELSE << >>)
                  \o src,
        metadata |-> md1,
        raised |-> ""]

code_to_py(src, md, pad) ==
    IF DOMAIN md = {} THEN [lines |-> src, metadata |-> md, raised |-> ""]
    ELSE IF "endofcell" \notin DOMAIN md
         THEN [lines |-> << >>, metadata |-> md, raised |-> "KeyError"]
         ELSE LET endofcell == md["endofcell"]
                  md1 == IF endofcell = <<"-">> THEN DelItem(md, "endofcell") ELSE md
                  options == metadata_to_json_options(md1)
              IN [lines |-> << <<"#", " ", "+", " ">> \o options >>
                            \o src
                            \o Repeat(<< >>, pad)
                            \o << <<"#", " ">> \o endofcell >>,
                  metadata |-> md1,
                  raised |-> ""]

\* the pattern without \s*: '^#( )' + endofcell + '$'
endofcell_re_match_no_space(endofcell, line) ==
    line = <<"#", " ">> \o endofcell

\* the pattern without its end: '^#( )' + endofcell
endofcell_re_match_no_end(endofcell, line) ==
    startswith(line, <<"#", " ">> \o endofcell)

\* re.compile(r'^#( )' + endofcell + r'\s*$').match(line)
endofcell_re_match(endofcell, line) ==
    /\ Len(line) >= 2 + Len(endofcell)
    /\ line[1] = "#"
    /\ line[2] = " "
    /\ SubSeq(line, 3, 2 + Len(endofcell)) = endofcell
    /\ \A i \in (3 + Len(endofcell))..Len(line) : line[i] \in Whitespace

\* the while loop of py_endofcell_marker, entered with the token of this iteration
RECURSIVE endofcell_loop(_, _, _)
endofcell_loop(src, endofcell, iterations) ==
    IF \E i \in DOMAIN src : endofcell_re_match(endofcell, src[i])
    THEN endofcell_loop(src, endofcell \o <<"-">>, iterations + 1)
    ELSE [endofcell |-> endofcell, iterations |-> iterations]

py_endofcell_marker(src) == endofcell_loop(src, <<"-">>, 1).endofcell

\* __init__ without lines 113-114
CellExporter_raw_untouched(c, default_language, e, detected) ==
    [ext |-> e,
     cell_type |-> c.cell_type,
     source |-> cell_source(c),
     metadata |-> filter_metadata(c.metadata),
     language |-> IF detected # "None" THEN detected ELSE default_language,
     padlines |-> Get(c.metadata, "padlines", 0),
     skiplines |-> Get(c.metadata, "skiplines", 1)
                   + (IF "skipline" \in DOMAIN c.metadata THEN 1 ELSE 0)
                   - (IF "noskipline" \in DOMAIN c.metadata THEN 1 ELSE 0)]

\* __init__; detected is what cell_language(self.source) returns
CellExporter(c, default_language, e, detected) ==
    LET md == filter_metadata(c.metadata)
    IN [ext |-> e,
        cell_type |-> c.cell_type,
        source |-> cell_source(c),
        metadata |-> IF c.cell_type = "raw" /\ "active" \notin DOMAIN md
                     THEN SetItem(md, "active", "")
                     ELSE md,
        language |-> IF detected # "None" THEN detected ELSE default_language,
        padlines |-> Get(c.metadata, "padlines", 0),
        skiplines |-> Get(c.metadata, "skiplines", 1)
                      + (IF "skipline" \in DOMAIN c.metadata THEN 1 ELSE 0)
                      - (IF "noskipline" \in DOMAIN c.metadata THEN 1 ELSE 0)]

is_code(self) ==
    IF self.cell_type = "code" THEN TRUE
    ELSE IF self.cell_type = "raw" /\ "active" \in DOMAIN self.metadata THEN TRUE
    ELSE FALSE

markdown_escape(self, src) ==
    IF self.ext = ".Rmd" THEN src
    ELSE IF self.ext = ".R"
         THEN [i \in DOMAIN src |->
                 IF src[i] # << >> THEN <<"#", "'", " ">> \o src[i] ELSE <<"#", "'">>]
         ELSE [i \in DOMAIN src |->
                 IF src[i] # << >> THEN <<"#", " ">> \o src[i] ELSE <<"#">>]

\* explicit_start_marker with any() for all() at line 144
explicit_start_marker_any(self, src) ==
    IF DOMAIN self.metadata # {} THEN TRUE
    ELSE IF \E i \in DOMAIN self.source : startswith(self.source[i], <<"#">>) THEN TRUE
    ELSE IF code_to_cell(self, src, FALSE)[2] # Len(src) THEN TRUE
    ELSE FALSE

explicit_start_marker(self, src) ==
    IF DOMAIN self.metadata # {} THEN TRUE
    ELSE IF \A i \in DOMAIN self.source : startswith(self.source[i], <<"#">>) THEN TRUE
    ELSE IF code_to_cell(self, src, FALSE)[2] # Len(src) THEN TRUE
    ELSE FALSE

\* lines 154-156 with the .R extension left out of the list
foreign_language_py_only(self, active) ==
    /\ self.ext \in {".py"}
    /\ active
    /\ self.language # (IF self.ext = ".R" THEN "R" ELSE "python")

\* code_to_text, lines 154-156: an active cell in a language the script cannot run
foreign_language(self, active) ==
    /\ self.ext \in {".R", ".py"}
    /\ active
    /\ self.language # (IF self.ext = ".R" THEN "R" ELSE "python")

\* code_to_text, line 169
comment_lines(src) ==
    [i \in DOMAIN src |-> IF src[i] # << >> THEN <<"#", " ">> \o src[i] ELSE <<"#">>]

\* lines 175-176 keeping an endofcell the metadata already holds
endofcell_metadata_kept(self, src) ==
    IF explicit_start_marker(self, src)
    THEN IF "endofcell" \in DOMAIN self.metadata
         THEN self.metadata
         ELSE SetItem(self.metadata, "endofcell", py_endofcell_marker(src))
    ELSE self.metadata

\* code_to_text, lines 175-176: self.metadata after them
endofcell_metadata(self, src) ==
    IF explicit_start_marker(self, src)
    THEN SetItem(self.metadata, "endofcell", py_endofcell_marker(src))
    ELSE self.metadata

\* The record returned holds the lines returned (or the exception raised),
\* self.metadata and self.source as the call leaves them, and what the call went
\* through: the final value of `active`, whether escape_magic ran, the source
\* handed to the encoder, and what explicit_start_marker was given and returned.
code_to_text(self) ==
    LET active0 == is_active(self.ext, self.metadata)
        foreign == foreign_language(self, active0)
        active == IF foreign THEN FALSE ELSE active0
        md1 == IF foreign
               THEN SetItem(SetItem(self.metadata, "active", "ipynb"),
                            "language", self.language)
               ELSE self.metadata
        src1 == IF active THEN escape_magic(self.source, self.language) ELSE self.source
        src2 == IF ~active THEN comment_lines(src1) ELSE src1
        self1 == [self EXCEPT !.metadata = md1]
        through(r, passed, esm, esm_md) ==
            [lines |-> r.lines, metadata |-> r.metadata, raised |-> r.raised,
             source |-> self.source, branch |-> "code_to_text",
             active |-> active, escaped |-> active, passed |-> passed,
             explicit |-> esm, explicit_metadata |-> esm_md]
    IN IF self.ext = ".Rmd"
       THEN through(code_to_rmd(src1, md1, self.language), src1, << >>, Empty)
       ELSE IF self.ext = ".R"
            THEN through(code_to_r(src2, md1), src2, << >>, Empty)
            ELSE through(code_to_py(src2, endofcell_metadata(self1, src2), self.padlines),
                         src2, << explicit_start_marker(self1, src2) >>, md1)

cell_to_text(self) ==
    IF is_code(self) THEN code_to_text(self)
    ELSE [lines |-> markdown_escape(self, self.source), metadata |-> self.metadata,
          raised |-> "", source |-> self.source, branch |-> "markdown_escape",
          active |-> FALSE, escaped |-> FALSE, passed |-> self.source,
          explicit |-> << >>, explicit_metadata |-> Empty]

----------------------------------------------------------------------------
(* The inputs of the model *)

Dashes(n) == Repeat("-", n)

Lines ==
    { << >>, <<"-">>, <<"%", "x">>, <<"#", "'", " ", "-">>, <<"#", " ", "-", " ">> }
    \cup { <<"#", " ">> \o Dashes(n) : n \in 1..MaxDash }

SeqsUpTo(S, n) == UNION { [1..k -> S] : k \in 0..n }

Sources == SeqsUpTo(Lines, MaxLines)

RECURSIVE Join(_)
Join(ls) ==
    IF Len(ls) = 0 THEN << >>
    ELSE IF Len(ls) = 1 THEN ls[1]
    ELSE ls[1] \o << NewLine >> \o Join(Tail(ls))

\* a cell's source text: the lines of a non-empty list, joined by line breaks
Texts == { Join(ls) : ls \in Sources \ { << >> } }

Extensions == {".Rmd", ".R", ".py"}

CellTypes == {"code", "markdown", "raw"}

UserMetadata ==
    { Empty, [tags |-> "t"], [active |-> "ipynb"], [active |-> "py"],
      [endofcell |-> <<"-", "-">>] }

CellMetadata ==
    UserMetadata
    \cup { SetItem(Empty, "padlines", p) : p \in 1..MaxPad }

Cells == [cell_type : CellTypes, source : Texts, metadata : CellMetadata]

\* the numbers of lines code_to_cell may read; it is asked for the code cells of
\* a .py export only
Consumed(c, e) ==
    IF e = ".py" /\ c.cell_type # "markdown"
    THEN 0..Len(cell_source(c))
    ELSE {Len(cell_source(c))}

Self ==
    [ext |-> ext, cell_type |-> cell_type, source |-> source, metadata |-> metadata,
     language |-> language, padlines |-> padlines]

NoCall ==
    [pre_metadata |-> Empty, raised |-> "", branch |-> "", active |-> FALSE,
     escaped |-> FALSE, passed |-> << >>, explicit |-> << >>,
     explicit_metadata |-> Empty]

NoFn ==
    [name |-> "", source |-> << >>, metadata |-> Empty, padlines |-> 0,
     returned |-> FALSE, lines |-> << >>, metadata_after |-> Empty, raised |-> "",
     endofcell |-> << >>, iterations |-> 0]

FnMetadata ==
    { Empty, [tags |-> "t"], [endofcell |-> <<"-">>], [endofcell |-> <<"-", "-">>],
      [tags |-> "t", endofcell |-> <<"-">>], [tags |-> "t", endofcell |-> <<"-", "-">>] }

----------------------------------------------------------------------------
(* The exporter: construction, then cell_to_text calls *)

Construct(c, default_language, e, detected, n) ==
    LET self == CellExporter(c, default_language, e, detected)
    IN /\ cell = c
       /\ ext = self.ext
       /\ cell_type = self.cell_type
       /\ source = self.source
       /\ metadata = self.metadata
       /\ language = self.language
       /\ padlines = self.padlines
       /\ consumed = n
       /\ calls = 0
       /\ text = << >>
       /\ call = NoCall

Init ==
    /\ \E c \in Cells, e \in Extensions, detected \in {"None", "R"} :
          \E n \in Consumed(c, e) :
             Construct(c, "python", e, detected, n)
    /\ fn = NoFn

\* calls counts 0, 1 and "2 or more"
CellToText ==
    LET r == cell_to_text(Self)
    IN /\ metadata' = r.metadata
       /\ source' = r.source
       /\ text' = IF r.raised = "" THEN r.lines ELSE text
       /\ call' = [pre_metadata |-> metadata, raised |-> r.raised, branch |-> r.branch,
                   active |-> r.active, escaped |-> r.escaped, passed |-> r.passed,
                   explicit |-> r.explicit, explicit_metadata |-> r.explicit_metadata]
       /\ calls' = IF calls = 0 THEN 1 ELSE 2
       /\ UNCHANGED <<cell, ext, cell_type, language, padlines, consumed, fn>>

Next == CellToText

Spec == Init /\ [][Next]_vars

----------------------------------------------------------------------------
(* The module-level functions, called directly: one call on any arguments *)

InitFn ==
    /\ Construct([cell_type |-> "markdown", source |-> << >>, metadata |-> Empty],
                 "python", ".py", "None", 1)
    /\ \E name \in {"py_endofcell_marker", "code_to_py"}, src \in Sources :
          \E md \in (IF name = "code_to_py" THEN FnMetadata ELSE {Empty}),
             pad \in (IF name = "code_to_py" THEN 0..MaxPad ELSE {0}) :
             fn = [NoFn EXCEPT !.name = name, !.source = src, !.metadata = md,
                               !.padlines = pad]

Call_py_endofcell_marker ==
    /\ fn.name = "py_endofcell_marker"
    /\ ~fn.returned
    /\ fn' = [fn EXCEPT !.returned = TRUE,
                        !.endofcell = py_endofcell_marker(fn.source),
                        !.iterations = endofcell_loop(fn.source, <<"-">>, 1).iterations]
    /\ UNCHANGED exporter

Call_code_to_py ==
    /\ fn.name = "code_to_py"
    /\ ~fn.returned
    /\ LET r == code_to_py(fn.source, fn.metadata, fn.padlines)
       IN fn' = [fn EXCEPT !.returned = TRUE, !.lines = r.lines,
                           !.metadata_after = r.metadata, !.raised = r.raised]
    /\ UNCHANGED exporter

NextFn == Call_py_endofcell_marker \/ Call_code_to_py

SpecFn == InitFn /\ [][NextFn]_vars

----------------------------------------------------------------------------
(* The notions the properties are stated with, defined apart from the code *)

RECURSIVE RStrip(_)
RStrip(line) ==
    IF line # << >> /\ line[Len(line)] \in Whitespace
    THEN RStrip(SubSeq(line, 1, Len(line) - 1))
    ELSE line

\* line is '#', one space, the token of n dashes, then only trailing whitespace
Collides(line, n) == RStrip(line) = <<"#", " ">> \o Dashes(n)

\* the token of n dashes is the shortest of "-", "--", ... no line of src collides with
ShortestFree(src, n) ==
    /\ n >= 1
    /\ \A i \in DOMAIN src : ~Collides(src[i], n)
    /\ \A k \in 1..(n - 1) : \E i \in DOMAIN src : Collides(src[i], k)

\* the number of lines of src that collide with some token of the sequence
CollidingLines(src) ==
    Cardinality({ i \in DOMAIN src : \E k \in 1..Len(src[i]) : Collides(src[i], k) })

\* the inactive form of the lines: "# " before a line, "#" for an empty one
Commented(src) ==
    [i \in DOMAIN src |-> IF src[i] = << >> THEN <<"#">> ELSE <<"#", " ">> \o src[i]]

Absent == "(absent)"

----------------------------------------------------------------------------
(* Properties of the module-level functions (SpecFn) *)

\* C2: py_endofcell_marker returns the shortest token of "-", "--", "---", ... that
\* no line of source collides with: the result is made of dashes only, no line is
\* '#', a space, the result, then trailing whitespace, and every shorter token does
\* collide with some line (so the result is "-" when nothing collides with "-").
C2_ShortestFreeToken ==
    (fn.name = "py_endofcell_marker" /\ fn.returned) =>
        /\ fn.endofcell = Dashes(Len(fn.endofcell))
        /\ ShortestFree(fn.source, Len(fn.endofcell))

\* "# -" and "# --" are both in the source and "---" is returned
C2_Witness ==
    /\ fn.name = "py_endofcell_marker"
    /\ fn.returned
    /\ Len(fn.endofcell) >= 3

\* C3: code_to_py(source, metadata, padlines) returns source unchanged when metadata
\* is empty, and otherwise the start line '# + ' + options, the source lines,
\* padlines empty lines and the end line '# ' + t, where t is metadata's endofcell,
\* or "-" when the key is absent, the key being dropped before the options are
\* written when t is "-".
C3_CodeToPyReference ==
    (fn.name = "code_to_py" /\ fn.returned) =>
        /\ fn.raised = ""
        /\ IF DOMAIN fn.metadata = {}
           THEN fn.lines = fn.source /\ DOMAIN fn.metadata_after = {}
           ELSE LET t == Get(fn.metadata, "endofcell", <<"-">>)
                    kept == IF t = <<"-">> THEN DelItem(fn.metadata, "endofcell")
                            ELSE fn.metadata
                IN /\ fn.lines = << <<"#", " ", "+", " ">> \o metadata_to_json_options(kept) >>
                                 \o fn.source
                                 \o Repeat(<< >>, fn.padlines)
                                 \o << <<"#", " ">> \o t >>
                   /\ fn.metadata_after = kept

\* C10: py_endofcell_marker ends after at most (number of source lines that collide
\* with some token) + 1 iterations of its loop, and the token it returns has at
\* most that many dashes.
C10_IterationBound ==
    (fn.name = "py_endofcell_marker" /\ fn.returned) =>
        /\ fn.iterations >= 1
        /\ fn.iterations <= CollidingLines(fn.source) + 1
        /\ Len(fn.endofcell) <= CollidingLines(fn.source) + 1

\* every line of the source collides and the loop runs once more than that
C10_Witness ==
    /\ fn.name = "py_endofcell_marker"
    /\ fn.returned
    /\ fn.iterations >= 3
    /\ fn.iterations = CollidingLines(fn.source) + 1

----------------------------------------------------------------------------
(* Properties of the exporter (Spec) *)

InitialMetadata == CellExporter(cell, "python", ext, "None").metadata

CodeCall == calls > 0 /\ call.branch = "code_to_text"

NativeLanguage == IF ext = ".R" THEN "R" ELSE "python"

\* the last call found the cell active, in a language the script cannot run
ForeignCall ==
    /\ CodeCall
    /\ ext \in {".R", ".py"}
    /\ is_active(ext, call.pre_metadata)
    /\ language # NativeLanguage

\* the source lines as the text holds them: between the fences of a .Rmd chunk,
\* at the end of a .R cell, after the start line of a .py cell with markers
EmittedSource ==
    CASE ext = ".Rmd" -> SubSeq(text, 2, Len(text) - 1)
      [] ext = ".R" -> SubSeq(text, Len(text) - Len(source) + 1, Len(text))
      [] ext = ".py" -> IF Len(text) >= Len(source) + 2
                        THEN SubSeq(text, 2, Len(source) + 1)
                        ELSE text

\* C1: round trip: decoding the lines cell_to_text returns gives back the source
\* lines of the cell. The decoder reads the lines alone, so no markdown cell with
\* other source lines may be exported, in the same dialect, as the same lines.
C1_RoundTrip ==
    (calls > 0 /\ call.raised = "") =>
        \A m \in Sources \ { << >> } :
            markdown_escape(Self, m) = text => m = source

\* C4: the only keys a code encoding adds to the metadata are endofcell, active
\* and language: every key present after the call and absent before it is one of
\* the three.
C4_OnlyThreeKeysAdded ==
    CodeCall =>
        (DOMAIN metadata \ DOMAIN call.pre_metadata) \subseteq {"endofcell", "active", "language"}

\* C4, amended: the keys added are among endofcell, active, language and eval, and
\* eval is added only in the .Rmd and .R dialects, for a cell encoded as inactive.
C4_OnlyFourKeysAdded ==
    CodeCall =>
        /\ (DOMAIN metadata \ DOMAIN call.pre_metadata)
              \subseteq {"endofcell", "active", "language", "eval"}
        /\ "eval" \in (DOMAIN metadata \ DOMAIN call.pre_metadata) =>
              (ext \in {".Rmd", ".R"} /\ ~call.active /\ metadata["eval"] = FALSE)

\* a first call that added active, language and eval
C4_Witness ==
    /\ CodeCall
    /\ calls = 1
    /\ (DOMAIN metadata \ DOMAIN call.pre_metadata) = {"active", "language", "eval"}

\* C5: a raw cell whose filtered metadata lacks the active key has active == ""
\* after construction; after construction and after any number of cell_to_text
\* calls is_code() is true for the code and raw cells and false for the markdown
\* cells, and markdown_escape is what a call applies to a markdown cell only.
C5_IsCode ==
    /\ is_code(Self) <=> cell_type \in {"code", "raw"}
    /\ ~is_code(Self) <=> cell_type = "markdown"
    /\ (calls = 0 /\ cell_type = "raw"
           /\ "active" \notin DOMAIN filter_metadata(cell.metadata)) =>
          Get(metadata, "active", Absent) = ""
    /\ calls > 0 => (call.branch = "markdown_escape" <=> cell_type = "markdown")

\* a raw cell given without the active key, after two calls
C5_Witness ==
    /\ cell_type = "raw"
    /\ "active" \notin DOMAIN cell.metadata
    /\ calls = 2
    /\ is_code(Self)

\* what explicit_start_marker returned in the last call, against conditions (a),
\* (b) and (c), (b) asking each line of self.source to begin with prefix
ExplicitIff(prefix) ==
    (calls > 0 /\ call.explicit # << >>) =>
        (call.explicit[1] <=>
            \/ DOMAIN call.explicit_metadata # {}
            \/ \A i \in DOMAIN source : startswith(source[i], prefix)
            \/ consumed # Len(call.passed))

\* C6: explicit_start_marker returns true exactly when (a) the metadata is not
\* empty, or (b) every line of the original source begins with "# ", the prefix
\* put on the lines of an inactive cell, or (c) the probing decoder, run on the
\* source passed, does not read exactly len(source) lines.
C6_ExplicitIffCommentPrefix == ExplicitIff(<<"#", " ">>)

\* C6, amended: as above with (b) every line of the original source begins with
\* the character '#'.
C6_ExplicitIffHash == ExplicitIff(<<"#">>)

\* true came from (b) alone, for lines that begin with '#' but not with "# "
C6_Witness ==
    /\ calls > 0
    /\ call.explicit = << TRUE >>
    /\ DOMAIN call.explicit_metadata = {}
    /\ consumed = Len(call.passed)
    /\ \E i \in DOMAIN source : ~startswith(source[i], <<"#", " ">>)

\* what C7 says of the .R and .py dialects
C7_Script ==
    ForeignCall =>
        /\ Get(metadata, "active", Absent) = "ipynb"
        /\ Get(metadata, "language", Absent) = language
        /\ ~call.escaped
        /\ call.passed = Commented(source)
        /\ Len(text) >= Len(source)
        /\ EmittedSource = Commented(source)

\* the active and language keys are as they were before the call
C7_KeysNotSet ==
    /\ Get(metadata, "active", Absent) = Get(call.pre_metadata, "active", Absent)
    /\ Get(metadata, "language", Absent) = Get(call.pre_metadata, "language", Absent)

\* C7: in .R and .py, a cell is_active reports active, in a language other than
\* the dialect's, is encoded as inactive: active == "ipynb" and language == the
\* resolved language afterwards, no magic escaping, every source line emitted
\* with "# " before it ("#" for an empty line). In .Rmd neither key is set and
\* the source lines are emitted without comment prefix, as they are.
C7_ForeignLanguage ==
    /\ C7_Script
    /\ (CodeCall /\ ext = ".Rmd") =>
          (C7_KeysNotSet /\ EmittedSource = source)

\* C7, amended: the same, the .Rmd lines being emitted without the prefix of an
\* inactive cell: they are the source lines, after magic escaping when the cell
\* is active (which writes a magic line as a comment).
C7_ForeignLanguageEscaped ==
    /\ C7_Script
    /\ (CodeCall /\ ext = ".Rmd") =>
          /\ C7_KeysNotSet
          /\ EmittedSource =
                IF call.active THEN escape_magic(source, language) ELSE source

\* an R cell with an empty line and a magic, written to a .py script
C7_Witness ==
    /\ ForeignCall
    /\ ext = ".py"
    /\ calls = 1
    /\ \E i \in DOMAIN source : source[i] = << >>
    /\ \E i \in DOMAIN source : is_magic(source[i])

\* C8: when a .py code cell is written with markers, the first line is the
\* '# + ' start line, the last line is '# ' + token, token being what
\* py_endofcell_marker gives for the source emitted, and no line between the two
\* is '#', a space, the token and trailing whitespace; code_to_py never meets a
\* non-empty metadata without the endofcell key.
C8_EndLineUnambiguous ==
    (CodeCall /\ ext = ".py") =>
        /\ call.raised = ""
        /\ Len(text) # Len(call.passed) =>
              LET n == Len(text)
                  last == text[n]
                  k == Len(last) - 2
              IN /\ n = Len(source) + padlines + 2
                 /\ startswith(text[1], <<"#", " ", "+", " ">>)
                 /\ last = <<"#", " ">> \o Dashes(k)
                 /\ SubSeq(text, 2, Len(source) + 1) = call.passed
                 /\ ShortestFree(call.passed, k)
                 /\ \A i \in 2..(n - 1) : ~Collides(text[i], k)

\* markers with blank lines before the end line and a token longer than "-"
C8_Witness ==
    /\ CodeCall
    /\ ext = ".py"
    /\ padlines >= 1
    /\ Len(text) = Len(source) + padlines + 2
    /\ Len(text[Len(text)]) >= 4

\* C9: every cell_to_text call on an exporter returns the same lines; the first
\* call may change the metadata, the later ones leave it as the first left it;
\* no call changes the source lines of the exporter.
C9_Idempotent ==
    [][ /\ source' = source
        /\ call'.raised = ""
        /\ calls >= 1 => (text' = text /\ metadata' = metadata) ]_vars

\* a second call, on metadata the first call changed
C9_Witness ==
    /\ calls = 2
    /\ metadata # InitialMetadata

====
